---- MODULE Spec2Model ----
(***************************************************************************)
(* Model of spikeChecker: the frame-by-frame spike scan of checker.py      *)
(* (check_attr_spike, viewport_pause) over the host's scene, current-time  *)
(* cursor, undo chunk, viewport and playback range, the scan handler of    *)
(* gui_main.py with its progress dialog, and the registry of gui_main.py   *)
(* with the handlers that change it.                                       *)
(*                                                                         *)
(* Attribute values and thresholds are floats in the program; the model    *)
(* uses small naturals, on which abs(val - prev_val) and the comparison    *)
(* with the threshold are exact as they are for the floats they stand for. *)
(***************************************************************************)
EXTENDS Integers, Sequences, FiniteSets, TLC

VARIABLES
    cursor,            \* host: the current-time cursor (cmds.currentTime)
    attrType,          \* host: per attribute "missing" or its type string
    chunkDepth,        \* host: number of open undo chunks
    suspended,         \* host: viewport refresh suspended
    playback,          \* host: the playback range (cmds.playbackOptions)
    pc,                \* position inside check_attr_spike
    node_attr_dict,    \* the request: sequence of [name, threshold], insertion order
    start_frame,
    end_frame,
    progress_callback, \* "None", "sink" or "update_progress"
    result_dict,       \* function: attribute name -> sequence of spike tuples
    prev_vals,         \* function over the attributes whose previous value is not None
    orig_time,
    total_frames,
    frame_index,       \* enumerate() index of the frame loop
    attr_index,        \* position of the inner loop in node_attr_dict (1-based)
    pending,           \* exception in flight towards the finally block
    outcome,           \* how the last call ended
    trace,             \* history of host calls and sink invocations of the call
    cursor_at_call,    \* history: cursor when check_attr_spike was entered
    call_args,         \* history: start_frame and end_frame as the caller gave them
    items,             \* SpikeCheckerModel._items: sequence of [name, value]
    gui,               \* position of _on_scan_clicked
    dialog,            \* QProgressDialog: "none", "shown", "hidden", "closed"
    clickPending,      \* a click on Cancel waits in the event queue
    wasCanceled,       \* QProgressDialog.wasCanceled()
    last_update_percent,
    displayed,         \* results shown in the tree of the view
    handled,           \* how the last run of _on_scan_clicked ended
    last_op,           \* history: the last operation on the registry, the
                       \* registry before it and the items_changed signals
                       \* it emitted
    stack,             \* the runs of _on_scan_clicked that wait, each in a
                       \* processEvents(), for a nested run to end
    at_click           \* history: the registry and the displayed results
                       \* when the running handler was entered

scanVars == <<pc, node_attr_dict, start_frame, end_frame, progress_callback,
              result_dict, prev_vals, orig_time, total_frames, frame_index,
              attr_index, pending, outcome, trace, cursor_at_call, call_args>>
hostVars == <<cursor, attrType, chunkDepth, suspended, playback>>
nestVars == <<stack, at_click>>
guiVars  == <<items, gui, dialog, clickPending, wasCanceled,
              last_update_percent, displayed, handled, last_op, nestVars>>
vars     == <<hostVars, scanVars, guiVars>>

(***************************************************************************)
(* Bounds                                                                  *)
(***************************************************************************)
MaxFrame     == 2    \* frames 0..MaxFrame for direct calls of the scanner
MaxVal       == 1    \* attribute values 0..MaxVal
MaxThreshold == 1    \* thresholds 0..MaxThreshold
MaxSamples   == 4    \* reads of one direct call: attributes times frames
GuiMaxFrame  == 11   \* last frame the spin boxes of the GUI are set to
MaxItems     == 3    \* length of the registry of the GUI
MaxNesting   == 1    \* runs of the scan handler that wait for a nested run
MaxOpenChunks == 1   \* undo chunks left open by calls whose finally block failed

Attrs     == {"A.v", "B.v"}
Frames    == 0..MaxFrame
Values    == 0..MaxVal
Thresholds == 0..MaxThreshold
HostTypes == {"missing", "double", "string"}

\* checker.py:8-11
NUMERIC_TYPES == {"float", "double", "int", "long", "short", "byte",
                  "doubleLinear", "doubleAngle"}

EmptyMap == [x \in {} |-> <<>>]
NoExc    == [cls |-> "none", msg |-> <<>>]
NoOutcome == [kind |-> "none"]

Abs(x) == IF x < 0 THEN -x ELSE x

\* keys of an ordered dict held as a sequence of [name, threshold]
Keys(d) == {d[i].name : i \in 1..Len(d)}

\* all ordered dicts over Attrs: sequences without a repeated key
Requests ==
    {d \in UNION {[1..n -> [name : Attrs, threshold : Thresholds]] :
                      n \in 0..Cardinality(Attrs)} :
        \A i, j \in 1..Len(d) : d[i].name = d[j].name => i = j}

(***************************************************************************)
(* Exceptions                                                              *)
(***************************************************************************)
\* checker.py:53
NodeMissingError(a) ==
    [cls |-> "RuntimeError", msg |-> <<"Node", a, "does not exist">>]
\* checker.py:56-58
NotNumericError(a, t) ==
    [cls |-> "RuntimeError", msg |-> <<"Attribute", a, "is not numeric", t>>]
\* gui_main.py:311
CancelledError ==
    [cls |-> "RuntimeError", msg |-> <<"Scan cancelled by user">>]
\* an error of the host while reading a value (cmds.getAttr raising)
HostReadError ==
    [cls |-> "RuntimeError", msg |-> <<"getAttr failed">>]
\* an error of the host while setting the time (cmds.currentTime raising)
HostTimeError ==
    [cls |-> "RuntimeError", msg |-> <<"currentTime failed">>]

(***************************************************************************)
(* check_attr_spike, lines 50-58: validation of the request                *)
(***************************************************************************)
objExists(a) == attrType[a] # "missing"

Offending(d, i) ==
    \/ ~objExists(d[i].name)
    \/ attrType[d[i].name] \notin NUMERIC_TYPES

\* a validation that reports the last bad key instead of the first
FirstOffender_Last(d) ==
    IF \E i \in 1..Len(d) : Offending(d, i)
    THEN CHOOSE i \in 1..Len(d) :
            Offending(d, i) /\ \A j \in (i + 1)..Len(d) : ~Offending(d, j)
    ELSE 0

\* index of the first key the validation loop rejects, 0 if none
FirstOffender(d) ==
    IF \E i \in 1..Len(d) : Offending(d, i)
    THEN CHOOSE i \in 1..Len(d) :
            Offending(d, i) /\ \A j \in 1..(i - 1) : ~Offending(d, j)
    ELSE 0

ValidationError(d, i) ==
    IF ~objExists(d[i].name)
    THEN NodeMissingError(d[i].name)
    ELSE NotNumericError(d[i].name, attrType[d[i].name])

(***************************************************************************)
(* The arguments start_frame and end_frame of check_attr_spike: left out   *)
(* by the caller, given as None, or given as an integer.                   *)
(***************************************************************************)
Omitted == [kind |-> "omitted"]
None    == [kind |-> "None"]
IntArg(n)  == [kind |-> "int", val |-> n]

\* line 16: start_frame=0
DefaultStart == IntArg(0)
\* line 17: end_frame=None
DefaultEnd == None

\* the parameter of the call: the argument, or the default of the signature
BindArg(arg, default) == IF arg.kind = "omitted" THEN default ELSE arg

\* lines 60-63: a parameter that is None takes the bound of the playback
\* range, an integer is kept
ResolveFrame(param, range_bound) ==
    IF param.kind = "None" THEN range_bound ELSE param.val

\* the integer of a parameter, 0 standing for None until lines 60-63
FrameOf(param) == IF param.kind = "None" THEN 0 ELSE param.val

\* a result that starts with an empty list for every key of the request
InitResult_AllKeys(d) == [a \in Keys(d) |-> <<>>]

\* line 50: the result starts as the empty dict
InitResult(d) == EmptyMap

\* entry of check_attr_spike (lines 14-50) with the arguments sa and ea
EnterWith(d, sa, ea, cb) ==
    /\ node_attr_dict' = d
    /\ call_args' = [start |-> sa, end |-> ea]
    /\ start_frame' = FrameOf(BindArg(sa, DefaultStart))
    /\ end_frame' = FrameOf(BindArg(ea, DefaultEnd))
    /\ progress_callback' = cb
    /\ result_dict' = InitResult(d)
    /\ prev_vals' = EmptyMap
    /\ orig_time' = 0
    /\ total_frames' = 0
    /\ frame_index' = 0
    /\ attr_index' = 0
    /\ pending' = NoExc
    /\ outcome' = NoOutcome
    /\ trace' = <<>>
    /\ cursor_at_call' = cursor
    /\ pc' = "validate"

\* entry with both bounds given as integers
Enter(d, s, e, cb) == EnterWith(d, IntArg(s), IntArg(e), cb)

\* a direct call of the scanner by a script
CallCheckAttrSpike ==
    /\ pc = "idle" /\ gui = "idle"
    /\ \E d \in Requests, s \in Frames, e \in Frames, cb \in {"None", "sink"} :
          /\ Len(d) * (e - s + 1) <= MaxSamples
          /\ Enter(d, s, e, cb)
    /\ UNCHANGED <<hostVars, guiVars>>

\* lines 51-58
Validate ==
    /\ pc = "validate"
    /\ LET k == FirstOffender(node_attr_dict) IN
         IF k # 0
         THEN /\ outcome' = [kind |-> "raise",
                             exc |-> ValidationError(node_attr_dict, k)]
              /\ pc' = "done"
         ELSE /\ outcome' = outcome
              /\ pc' = "setup"
    /\ UNCHANGED <<node_attr_dict, start_frame, end_frame, progress_callback,
                   result_dict, prev_vals, orig_time, total_frames,
                   frame_index, attr_index, pending, trace, cursor_at_call,
                   call_args>>
    /\ UNCHANGED <<hostVars, guiVars>>

(***************************************************************************)
(* viewport_pause, lines 118-131: cmds.refresh(suspend=pause) may raise    *)
(* (ok = FALSE) and the exception is swallowed; after a resume that did    *)
(* not raise, the view is redrawn with cmds.refresh(force=True).           *)
(***************************************************************************)
viewport_pause(susp, pause, ok) ==
    [suspended |-> IF ok THEN pause ELSE susp,
     events    |-> <<[ev |-> "refresh", suspend |-> pause, ok |-> ok]>> \o
                   (IF ok /\ ~pause THEN <<[ev |-> "forceRefresh"]>> ELSE <<>>)]

\* previous values that start at 0 instead of None
InitPrevVals_Zero(d) == [a \in Keys(d) |-> 0]

\* line 67-69: every previous value starts as None (no attribute is mapped)
InitPrevVals(d) == EmptyMap

\* line 70
TotalFrames(s, e) == e - s + 1

\* range(start_frame, end_frame): the last frame is left out
frame_range_Exclusive(s, e) == [k \in 1..(e - s) |-> s + k - 1]

\* line 74: range(start_frame, end_frame + 1) as a sequence, empty if e < s
frame_range(s, e) == [k \in 1..(e - s + 1) |-> s + k - 1]

\* lines 60-72; Oks: the ways cmds.refresh may end, TRUE without and FALSE
\* with an exception
Setup(Oks) ==
    /\ pc = "setup"
    /\ start_frame' = ResolveFrame(BindArg(call_args.start, DefaultStart),
                                   playback.min)
    /\ end_frame' = ResolveFrame(BindArg(call_args.end, DefaultEnd),
                                 playback.max)
    /\ orig_time' = cursor
    /\ prev_vals' = InitPrevVals(node_attr_dict)
    /\ total_frames' = TotalFrames(start_frame', end_frame')
    /\ chunkDepth' = chunkDepth + 1
    /\ \E ok \in Oks :
          LET vp == viewport_pause(suspended, TRUE, ok) IN
            /\ suspended' = vp.suspended
            /\ trace' = trace \o <<[ev |-> "openChunk"]>> \o vp.events
    /\ frame_index' = 0
    /\ pc' = "frame"
    /\ UNCHANGED <<cursor, attrType, playback>>
    /\ UNCHANGED <<node_attr_dict, progress_callback, result_dict, attr_index,
                   pending, outcome, cursor_at_call, call_args>>
    /\ UNCHANGED guiVars

\* the loop variable i_frame of line 75
i_frame == frame_range(start_frame, end_frame)[frame_index + 1]

\* lines 75-76: next iteration of the frame loop, or its end
NextFrame ==
    /\ pc = "frame"
    /\ IF frame_index < Len(frame_range(start_frame, end_frame))
       THEN /\ cursor' = i_frame
            /\ trace' = Append(trace, [ev |-> "time", frame |-> i_frame])
            /\ attr_index' = 1
            /\ pc' = IF Len(node_attr_dict) = 0 THEN "progress" ELSE "sample"
       ELSE /\ pc' = "finally"
            /\ UNCHANGED <<cursor, trace, attr_index>>
    /\ UNCHANGED <<attrType, chunkDepth, suspended, playback>>
    /\ UNCHANGED <<node_attr_dict, start_frame, end_frame, progress_callback,
                   result_dict, prev_vals, orig_time, total_frames,
                   frame_index, pending, outcome, cursor_at_call,
                   call_args>>
    /\ UNCHANGED guiVars

\* the attributes taken in reverse insertion order
ItemAt_Reversed(d, k) == d[Len(d) + 1 - k]

\* line 77: position of the inner loop in the items of the dict
ItemAt(d, k) == d[k]

\* line 81
Diff(val, prev_val) == Abs(val - prev_val)

\* a comparison that also records a jump equal to the threshold
IsSpike_Inclusive(diff, attr_threshold) == diff >= attr_threshold

\* line 82
IsSpike(diff, attr_threshold) == diff > attr_threshold

\* a record that names the current frame twice
SpikeTuple_SameFrame(f, prev_val, val, diff) == <<f, f, prev_val, val, diff>>

\* line 86
SpikeTuple(f, prev_val, val, diff) == <<f - 1, f, prev_val, val, diff>>

\* a record put in front of the list instead of at its end
AppendSpike_Prepend(rd, node_attr, t) ==
    IF node_attr \in DOMAIN rd
    THEN [rd EXCEPT ![node_attr] = <<t>> \o @]
    ELSE [a \in DOMAIN rd \cup {node_attr} |->
            IF a = node_attr THEN <<t>> ELSE rd[a]]

\* lines 83-87: append to the list of node_attr, created on first use
AppendSpike(rd, node_attr, t) ==
    IF node_attr \in DOMAIN rd
    THEN [rd EXCEPT ![node_attr] = Append(@, t)]
    ELSE [a \in DOMAIN rd \cup {node_attr} |->
            IF a = node_attr THEN <<t>> ELSE rd[a]]

\* lines 79-87 for one attribute
Compare(rd, pv, node_attr, attr_threshold, f, val) ==
    IF node_attr \in DOMAIN pv /\ IsSpike(Diff(val, pv[node_attr]), attr_threshold)
    THEN AppendSpike(rd, node_attr,
            SpikeTuple(f, pv[node_attr], val, Diff(val, pv[node_attr])))
    ELSE rd

\* a previous value that is set once and not updated afterwards
SetPrev_KeepFirst(pv, node_attr, val) ==
    IF node_attr \in DOMAIN pv THEN pv
    ELSE [a \in DOMAIN pv \cup {node_attr} |-> IF a = node_attr THEN val ELSE pv[a]]

\* line 88
SetPrev(pv, node_attr, val) ==
    [a \in DOMAIN pv \cup {node_attr} |-> IF a = node_attr THEN val ELSE pv[a]]

\* lines 77-88: one iteration of the attribute loop; cmds.getAttr returns the
\* value of the attribute at the cursor, one of Scene[node_attr, cursor], or
\* raises
Sample(Scene) ==
    /\ pc = "sample"
    /\ LET node_attr == ItemAt(node_attr_dict, attr_index).name
           attr_threshold == ItemAt(node_attr_dict, attr_index).threshold
       IN
         \/ \E val \in Scene[node_attr, cursor] :
              /\ trace' = Append(trace, [ev |-> "read", attr |-> node_attr,
                                         frame |-> cursor, val |-> val])
              /\ result_dict' = Compare(result_dict, prev_vals, node_attr,
                                        attr_threshold, i_frame, val)
              /\ prev_vals' = SetPrev(prev_vals, node_attr, val)
              /\ attr_index' = attr_index + 1
              /\ pc' = IF attr_index = Len(node_attr_dict)
                       THEN "progress" ELSE "sample"
              /\ UNCHANGED pending
         \/ /\ trace' = Append(trace, [ev |-> "readError", attr |-> node_attr,
                                       frame |-> cursor])
            /\ pending' = HostReadError
            /\ pc' = "finally"
            /\ UNCHANGED <<result_dict, prev_vals, attr_index>>
    /\ UNCHANGED hostVars
    /\ UNCHANGED <<node_attr_dict, start_frame, end_frame, progress_callback,
                   orig_time, total_frames, frame_index, outcome,
                   cursor_at_call,
                   call_args>>
    /\ UNCHANGED guiVars

\* a 0-based count of frames given to the callback
ProgressArgs_ZeroBased(fi, total) == [k |-> fi, total |-> total]

\* line 92: the arguments of the progress callback
ProgressArgs(fi, total) == [k |-> fi + 1, total |-> total]

\* lines 90-91 when no callback is given
ProgressNone ==
    /\ pc = "progress"
    /\ progress_callback = "None"
    /\ frame_index' = frame_index + 1
    /\ pc' = "frame"
    /\ UNCHANGED hostVars
    /\ UNCHANGED <<node_attr_dict, start_frame, end_frame, progress_callback,
                   result_dict, prev_vals, orig_time, total_frames,
                   attr_index, pending, outcome, trace, cursor_at_call,
                   call_args>>
    /\ UNCHANGED guiVars

\* lines 90-92 with a callback of the caller, which returns or signals
\* cancellation by raising
ProgressSink ==
    /\ pc = "progress"
    /\ progress_callback = "sink"
    /\ LET args == ProgressArgs(frame_index, total_frames) IN
         trace' = Append(trace, [ev |-> "progress", k |-> args.k,
                                 total |-> args.total])
    /\ \/ /\ frame_index' = frame_index + 1
          /\ pc' = "frame"
          /\ UNCHANGED pending
       \/ /\ pending' = CancelledError
          /\ pc' = "finally"
          /\ UNCHANGED frame_index
    /\ UNCHANGED hostVars
    /\ UNCHANGED <<node_attr_dict, start_frame, end_frame, progress_callback,
                   result_dict, prev_vals, orig_time, total_frames,
                   attr_index, outcome, cursor_at_call,
                   call_args>>
    /\ UNCHANGED guiVars

\* a finally block that leaves the cursor where the scan stopped
RestoredTime_NoRestore(orig, cur) == cur

\* line 94: the time the finally block sets
RestoredTime(orig, cur) == orig

\* how the call ends after the finally block: line 98, or the exception
Exit(exc, rd) ==
    IF exc = NoExc THEN [kind |-> "return", value |-> rd]
                   ELSE [kind |-> "raise", exc |-> exc]

\* lines 93-98
Finally(Oks) ==
    /\ pc = "finally"
    /\ cursor' = RestoredTime(orig_time, cursor)
    /\ chunkDepth' = chunkDepth - 1
    /\ \E ok \in Oks :
          LET vp == viewport_pause(suspended, FALSE, ok) IN
            /\ suspended' = vp.suspended
            /\ trace' = trace \o
                 <<[ev |-> "restore", frame |-> RestoredTime(orig_time, cursor)],
                   [ev |-> "closeChunk"]>> \o vp.events
    /\ outcome' = Exit(pending, result_dict)
    /\ pc' = "done"
    /\ UNCHANGED <<attrType, playback>>
    /\ UNCHANGED <<node_attr_dict, start_frame, end_frame, progress_callback,
                   result_dict, prev_vals, orig_time, total_frames,
                   frame_index, attr_index, pending, cursor_at_call,
                   call_args>>
    /\ UNCHANGED guiVars

\* lines 93-94: cmds.currentTime(orig_time, e=True) raises inside the
\* finally block.  Lines 95-96 are not reached: the undo chunk stays open and
\* the viewport is not resumed, and the exception of the host leaves the call
\* in place of a pending one
FinallyRestoreFails ==
    /\ pc = "finally"
    /\ chunkDepth <= MaxOpenChunks
    /\ trace' = Append(trace, [ev |-> "restoreError", frame |-> orig_time])
    /\ outcome' = [kind |-> "raise", exc |-> HostTimeError]
    /\ pc' = "done"
    /\ UNCHANGED hostVars
    /\ UNCHANGED <<node_attr_dict, start_frame, end_frame, progress_callback,
                   result_dict, prev_vals, orig_time, total_frames,
                   frame_index, attr_index, pending, cursor_at_call,
                   call_args>>
    /\ UNCHANGED guiVars

\* the state of the scanner when no call is active
NoCall ==
    /\ pc' = "idle"
    /\ node_attr_dict' = <<>>
    /\ start_frame' = 0
    /\ end_frame' = 0
    /\ progress_callback' = "None"
    /\ result_dict' = EmptyMap
    /\ prev_vals' = EmptyMap
    /\ orig_time' = 0
    /\ total_frames' = 0
    /\ frame_index' = 0
    /\ attr_index' = 0
    /\ pending' = NoExc
    /\ outcome' = NoOutcome
    /\ trace' = <<>>
    /\ cursor_at_call' = cursor
    /\ call_args' = [start |-> Omitted, end |-> Omitted]

\* the caller of a direct call takes the result or the exception; the
\* locals of the call are gone
Return ==
    /\ pc = "done" /\ gui = "idle"
    /\ NoCall
    /\ UNCHANGED hostVars
    /\ UNCHANGED guiVars

(***************************************************************************)
(* gui_main.py: SpikeCheckerController._on_scan_clicked                    *)
(***************************************************************************)
\* lines 254-263: the dict built from the items; an item whose attribute
\* does not exist is skipped, a repeated name keeps its first position and
\* takes the later threshold
RECURSIVE BuildDict(_, _)
BuildDict(its, d) ==
    IF its = <<>> THEN d
    ELSE LET it == Head(its) IN
         IF ~objExists(it.name) THEN BuildDict(Tail(its), d)
         ELSE IF it.name \in Keys(d)
              THEN BuildDict(Tail(its),
                     [k \in 1..Len(d) |->
                        IF d[k].name = it.name
                        THEN [name |-> it.name, threshold |-> it.value]
                        ELSE d[k]])
              ELSE BuildDict(Tail(its),
                     Append(d, [name |-> it.name, threshold |-> it.value]))

\* the values the two spin boxes are set to
GuiFrames == {1, GuiMaxFrame}

\* a handler that lets a reversed range through to the scanner
ScanRejected_AnyRange(s, e) ==
    \/ items = <<>>
    \/ BuildDict(items, <<>>) = <<>>

\* lines 236-252 and 265-267: the early returns of the handler
ScanRejected(s, e) ==
    \/ items = <<>>
    \/ s > e
    \/ BuildDict(items, <<>>) = <<>>

\* lines 236 and 254-263: the handler works on the copy get_items returns
\* and calls no operation that changes the registry
ItemsAfterScan(its) == its

\* the GUI thread takes a call or a click from its event queue when no
\* handler runs and inside a handler that processes events: in the
\* processEvents() of line 289, after the dict is built and the dialog is
\* shown and before the scanner is called, inside progress.setValue of line
\* 306, which processes events for a modal dialog before it resets at the
\* maximum, and in the processEvents() of line 307
EventsDelivered ==
    \/ gui = "idle" /\ pc = "idle"
    \/ gui = "scanning" /\ pc \in {"events289", "events306", "events307"}

\* QProgressDialog.cancel(), the slot of the Cancel button: the dialog is
\* reset and hidden, and wasCanceled() is True
cancel(dlg, canceled) == [dialog |-> "hidden", wasCanceled |-> TRUE]

\* the running handler and the scanner it called, as they wait for a nested
\* run of the handler to end; dlg and canceled are the state of its dialog
Waiting(dlg, canceled) ==
    [pc |-> pc, node_attr_dict |-> node_attr_dict,
     start_frame |-> start_frame, end_frame |-> end_frame,
     progress_callback |-> progress_callback, result_dict |-> result_dict,
     prev_vals |-> prev_vals, orig_time |-> orig_time,
     total_frames |-> total_frames, frame_index |-> frame_index,
     attr_index |-> attr_index, pending |-> pending, outcome |-> outcome,
     trace |-> trace, cursor_at_call |-> cursor_at_call,
     call_args |-> call_args, dialog |-> dlg, wasCanceled |-> canceled,
     last_update_percent |-> last_update_percent, at_click |-> at_click]

\* lines 228-288: _on_scan_clicked(s, e) up to the show of the dialog.  The
\* handler has no guard against a second run: the click or call is taken
\* when no handler runs, or from the queue by a handler that processes
\* events, which then waits for the nested run.  A click on Cancel still in
\* the queue of the waiting handler is taken by the first processEvents()
\* of the nested one: it reaches the waiting dialog or is dropped.  The new
\* handler is then in the processEvents() of line 289 (pc = "events289")
\* with its dict and its two frames; the scanner is not called yet
ScanClicked(s, e) ==
    /\ EventsDelivered
    /\ IF ScanRejected(s, e)
       THEN /\ handled' = "warning"
            /\ UNCHANGED <<gui, dialog, clickPending, wasCanceled,
                           last_update_percent, scanVars, nestVars>>
       ELSE /\ \/ gui = "idle" /\ stack' = stack
               \/ /\ gui = "scanning"
                  /\ Len(stack) < MaxNesting
                  /\ \/ stack' = Append(stack, Waiting(dialog, wasCanceled))
                     \/ /\ clickPending
                        /\ stack' = Append(stack,
                              Waiting(cancel(dialog, wasCanceled).dialog,
                                      cancel(dialog, wasCanceled).wasCanceled))
            /\ at_click' = [items |-> items, displayed |-> displayed]
            /\ dialog' = "shown"
            /\ clickPending' = FALSE
            /\ wasCanceled' = FALSE
            /\ last_update_percent' = 0
            /\ gui' = "scanning"
            /\ handled' = "none"
            /\ node_attr_dict' = BuildDict(items, <<>>)
            /\ start_frame' = s
            /\ end_frame' = e
            /\ progress_callback' = "update_progress"
            /\ pc' = "events289"
            /\ result_dict' = EmptyMap
            /\ prev_vals' = EmptyMap
            /\ orig_time' = 0
            /\ total_frames' = 0
            /\ frame_index' = 0
            /\ attr_index' = 0
            /\ pending' = NoExc
            /\ outcome' = NoOutcome
            /\ trace' = <<>>
            /\ UNCHANGED <<cursor_at_call, call_args>>
    /\ items' = ItemsAfterScan(items)
    /\ UNCHANGED <<displayed, last_op>>
    /\ UNCHANGED hostVars

\* lines 289-319: processEvents() of line 289 returns when the queue is
\* empty, and the handler calls check_attr_spike with its dict, its two
\* frames and update_progress
CallScanner ==
    /\ gui = "scanning" /\ pc = "events289"
    /\ ~clickPending
    /\ Enter(node_attr_dict, start_frame, end_frame, "update_progress")
    /\ UNCHANGED hostVars
    /\ UNCHANGED guiVars

\* the Scan button with the values of the two spin boxes; a nested run is
\* followed for the ranges of at most MaxFrame frames
OnScanClicked ==
    \E s \in GuiFrames, e \in GuiFrames :
        /\ gui = "scanning" => e - s < MaxFrame
        /\ ScanClicked(s, e)

\* the user clicks Cancel on the progress dialog, at any moment while it is
\* shown; the click waits in the event queue until the handler processes
\* events
UserClicksCancel ==
    /\ gui = "scanning" /\ dialog = "shown"
    /\ ~clickPending
    /\ clickPending' = TRUE
    /\ UNCHANGED <<items, gui, dialog, wasCanceled, last_update_percent,
                   displayed, handled, last_op>>
    /\ UNCHANGED nestVars
    /\ UNCHANGED <<hostVars, scanVars>>

\* the pairs (current, total) with total <= 200 for which the double
\* (current / total) * 100 of line 294 is just below the integer it stands
\* for, so that int() gives one less
FloatShort ==
    {<<29, 50>>, <<29, 100>>, <<57, 100>>, <<58, 100>>, <<87, 150>>,
     <<58, 200>>, <<114, 200>>, <<116, 200>>}

\* line 294: int((current / total) * 100), computed in double precision
\* (for total <= 200)
Percent(current, total) ==
    (current * 100) \div total
        - (IF <<current, total>> \in FloatShort THEN 1 ELSE 0)

\* lines 297-299: whether this invocation updates the dialog
UpdatesDialog(current, total, last) ==
    \/ Percent(current, total) = 0
    \/ Percent(current, total) - last >= 10
    \/ current = total

\* line 281: the maximum of the progress dialog
DialogMaximum == 100

\* lines 286-287 and 306: the end of progress.setValue(value).  With
\* setAutoReset and setAutoClose, a value equal to the maximum resets the
\* dialog: it is hidden and wasCanceled() is False again
SetValue(value, dlg, canceled) ==
    IF value = DialogMaximum
    THEN [dialog |-> "hidden", wasCanceled |-> FALSE]
    ELSE [dialog |-> dlg, wasCanceled |-> canceled]

\* lines 293-306: update_progress, invoked from line 92 of the scanner.  An
\* invocation that does not update the dialog returns at once; one that
\* does calls progress.setValue, which sets the bar and may process events
\* (pc = "events306")
UpdateProgress ==
    /\ pc = "progress"
    /\ progress_callback = "update_progress"
    /\ LET args == ProgressArgs(frame_index, total_frames)
           upd  == UpdatesDialog(args.k, args.total, last_update_percent)
       IN
         /\ trace' = Append(trace, [ev |-> "progress", k |-> args.k,
                                    total |-> args.total])
         /\ IF upd
            THEN /\ pc' = "events306"
                 /\ UNCHANGED frame_index
            ELSE /\ frame_index' = frame_index + 1
                 /\ pc' = "frame"
    /\ UNCHANGED <<items, gui, dialog, clickPending, wasCanceled,
                   last_update_percent, displayed, handled, last_op>>
    /\ UNCHANGED nestVars
    /\ UNCHANGED hostVars
    /\ UNCHANGED <<node_attr_dict, start_frame, end_frame, progress_callback,
                   result_dict, prev_vals, orig_time, total_frames,
                   attr_index, pending, outcome, cursor_at_call,
                   call_args>>

\* line 306: progress.setValue returns, after the reset of a dialog that
\* reached its maximum; the handler is then in the processEvents() of line
\* 307 (pc = "events307").  Whether setValue processes events depends on
\* the dialog (it does once the dialog was shown by setValue), so a click
\* may still be in the queue
SetValueEnd ==
    /\ gui = "scanning" /\ pc = "events306"
    /\ LET args == ProgressArgs(frame_index, total_frames)
           sv   == SetValue(Percent(args.k, args.total), dialog, wasCanceled)
       IN
         /\ dialog' = sv.dialog
         /\ wasCanceled' = sv.wasCanceled
    /\ pc' = "events307"
    /\ UNCHANGED <<items, gui, clickPending, last_update_percent, displayed,
                   handled, last_op>>
    /\ UNCHANGED nestVars
    /\ UNCHANGED hostVars
    /\ UNCHANGED <<node_attr_dict, start_frame, end_frame, progress_callback,
                   result_dict, prev_vals, orig_time, total_frames,
                   frame_index, attr_index, pending, outcome, trace,
                   cursor_at_call, call_args>>

\* a handler that processes events takes the click on Cancel from the
\* queue.  A click made before setValue(100) reset and hid the dialog
\* either still reaches the button or is dropped with the hidden dialog
TakeCancelClick ==
    /\ gui = "scanning" /\ pc \in {"events289", "events306", "events307"}
    /\ clickPending
    /\ clickPending' = FALSE
    /\ \/ /\ dialog' = cancel(dialog, wasCanceled).dialog
          /\ wasCanceled' = cancel(dialog, wasCanceled).wasCanceled
       \/ /\ dialog # "shown"
          /\ UNCHANGED <<dialog, wasCanceled>>
    /\ UNCHANGED <<items, gui, last_update_percent, displayed, handled,
                   last_op>>
    /\ UNCHANGED nestVars
    /\ UNCHANGED <<hostVars, scanVars>>

\* lines 307-311: processEvents() of line 307 returns when the queue is
\* empty; the percent is kept and wasCanceled() is tested
UpdateProgressEnd ==
    /\ gui = "scanning" /\ pc = "events307"
    /\ ~clickPending
    /\ last_update_percent' =
          Percent(ProgressArgs(frame_index, total_frames).k,
                  ProgressArgs(frame_index, total_frames).total)
    /\ IF wasCanceled
       THEN /\ pending' = CancelledError
            /\ pc' = "finally"
            /\ UNCHANGED frame_index
       ELSE /\ frame_index' = frame_index + 1
            /\ pc' = "frame"
            /\ UNCHANGED pending
    /\ UNCHANGED <<items, gui, dialog, clickPending, wasCanceled, displayed,
                   handled, last_op>>
    /\ UNCHANGED nestVars
    /\ UNCHANGED hostVars
    /\ UNCHANGED <<node_attr_dict, start_frame, end_frame, progress_callback,
                   result_dict, prev_vals, orig_time, total_frames,
                   attr_index, outcome, trace, cursor_at_call, call_args>>

\* lines 313-329: what the tree of the view shows when the handler is left:
\* lines 326-329 are reached only when check_attr_spike returned
DisplayAfter(out, shown) ==
    IF out.kind = "return" THEN out.value ELSE shown

\* lines 320-329: the dialog is closed, and a click on it that was not
\* processed is dropped; a RuntimeError leaves the handler, a returned
\* result replaces the displayed one.  When the handler was a nested run,
\* the handler that waited goes on in its processEvents(); an exception
\* that leaves the nested handler is reported by the toolkit and does not
\* reach it
ScanFinished ==
    /\ gui = "scanning" /\ pc = "done"
    /\ displayed' = DisplayAfter(outcome, displayed)
    /\ handled' = IF outcome.kind = "return" THEN "displayed" ELSE "raised"
    /\ clickPending' = FALSE
    /\ IF stack = <<>>
       THEN /\ gui' = "idle"
            /\ dialog' = "closed"
            /\ NoCall
            /\ UNCHANGED <<wasCanceled, last_update_percent, nestVars>>
       ELSE LET w == stack[Len(stack)] IN
            /\ gui' = "scanning"
            /\ stack' = SubSeq(stack, 1, Len(stack) - 1)
            /\ at_click' = w.at_click
            /\ dialog' = w.dialog
            /\ wasCanceled' = w.wasCanceled
            /\ last_update_percent' = w.last_update_percent
            /\ pc' = w.pc
            /\ node_attr_dict' = w.node_attr_dict
            /\ start_frame' = w.start_frame
            /\ end_frame' = w.end_frame
            /\ progress_callback' = w.progress_callback
            /\ result_dict' = w.result_dict
            /\ prev_vals' = w.prev_vals
            /\ orig_time' = w.orig_time
            /\ total_frames' = w.total_frames
            /\ frame_index' = w.frame_index
            /\ attr_index' = w.attr_index
            /\ pending' = w.pending
            /\ outcome' = w.outcome
            /\ trace' = w.trace
            /\ cursor_at_call' = w.cursor_at_call
            /\ call_args' = w.call_args
    /\ UNCHANGED <<items, last_op>>
    /\ UNCHANGED hostVars

\* SpikeCheckerGUI.clear_scan_results, also behind the button Clear Results
\* (_on_clear_results_clicked)
ClearScanResults ==
    /\ EventsDelivered
    /\ displayed' = EmptyMap
    /\ UNCHANGED <<items, gui, dialog, clickPending, wasCanceled,
                   last_update_percent, handled, last_op>>
    /\ UNCHANGED nestVars
    /\ UNCHANGED <<hostVars, scanVars>>

\* the results a caller other than the scan handler gives to
\* display_scan_results
ShownResults == {[a \in {"A.v"} |-> << <<1, 2, 0, 1, 1>> >>]}

\* SpikeCheckerGUI.display_scan_results called with a result
DisplayScanResults ==
    /\ EventsDelivered
    /\ \E r \in ShownResults : displayed' = r
    /\ UNCHANGED <<items, gui, dialog, clickPending, wasCanceled,
                   last_update_percent, handled, last_op>>
    /\ UNCHANGED nestVars
    /\ UNCHANGED <<hostVars, scanVars>>

\* _on_tree_item_clicked: a click on a record of the tree sets the cursor to
\* its current frame, a click on an attribute selects the node (the
\* selection is not part of the model).  The tree belongs to the view,
\* which takes no click while the window-modal dialog (line 285) is shown:
\* the click is taken when no handler runs, and inside a scan by a
\* processEvents() that finds the dialog hidden
OnTreeItemClicked ==
    /\ EventsDelivered
    /\ dialog # "shown"
    /\ \E a \in DOMAIN displayed :
          \/ \E i \in 1..Len(displayed[a]) : cursor' = displayed[a][i][2]
          \/ cursor' = cursor
    /\ cursor_at_call' = IF pc = "idle" THEN cursor' ELSE cursor_at_call
    /\ UNCHANGED <<attrType, chunkDepth, suspended, playback>>
    /\ UNCHANGED <<pc, node_attr_dict, start_frame, end_frame,
                   progress_callback, result_dict, prev_vals, orig_time,
                   total_frames, frame_index, attr_index, pending, outcome,
                   trace, call_args>>
    /\ UNCHANGED guiVars

\* the times the cursor takes in the model
AllFrames == 0..(MaxFrame + GuiMaxFrame + 1)

\* the scene the GUI runs are checked on: A.v is 0 with a pulse of one
\* frame to 1 at frame 2, B.v is flat
GuiScene ==
    [a \in Attrs, f \in AllFrames |-> IF a = "A.v" /\ f = 2 THEN {1} ELSE {0}]

\* any scene: every read may give any value
AnyScene == [a \in Attrs, f \in AllFrames |-> Values]

(***************************************************************************)
(* Specification of direct calls of the scanner                            *)
(***************************************************************************)
CursorStarts == {0, MaxFrame + 1}

\* the playback range of the host where calls give both bounds
GuiPlayback == [min |-> 1, max |-> MaxFrame]

InitScan ==
    /\ pc = "idle"
    /\ node_attr_dict = <<>>
    /\ start_frame = 0
    /\ end_frame = 0
    /\ progress_callback = "None"
    /\ result_dict = EmptyMap
    /\ prev_vals = EmptyMap
    /\ orig_time = 0
    /\ total_frames = 0
    /\ frame_index = 0
    /\ attr_index = 0
    /\ pending = NoExc
    /\ outcome = NoOutcome
    /\ trace = <<>>
    /\ cursor_at_call = cursor
    /\ call_args = [start |-> Omitted, end |-> Omitted]

\* no operation on the registry yet
NoOp == [op |-> "none", arg |-> {}, before |-> <<>>, signals |-> 0]

\* no handler was entered yet
NoClick == [items |-> <<>>, displayed |-> EmptyMap]

InitGui ==
    /\ gui = "idle"
    /\ dialog = "none"
    /\ clickPending = FALSE
    /\ wasCanceled = FALSE
    /\ last_update_percent = 0
    /\ displayed = EmptyMap
    /\ handled = "none"
    /\ last_op = NoOp
    /\ stack = <<>>
    /\ at_click = NoClick

Init ==
    /\ cursor \in CursorStarts
    /\ attrType \in [Attrs -> HostTypes]
    /\ chunkDepth = 0
    /\ suspended = FALSE
    /\ playback = GuiPlayback
    /\ InitScan
    /\ items = <<>>
    /\ InitGui

\* direct calls on a host whose cmds.refresh does not raise
Next ==
    \/ CallCheckAttrSpike
    \/ Validate
    \/ Setup({TRUE})
    \/ NextFrame
    \/ Sample(AnyScene)
    \/ ProgressNone
    \/ ProgressSink
    \/ Finally({TRUE})
    \/ Return

Spec == Init /\ [][Next]_vars

(***************************************************************************)
(* Specification of scans started from the GUI                             *)
(***************************************************************************)
\* registries of the GUI: add_item appends any name with any value
ItemLists ==
    UNION {[1..n -> [name : Attrs, value : Thresholds]] : n \in 0..MaxItems}

\* the cursor starts on the first frame of the playback range, a click on a
\* record of the tree moves it; A.v is a numeric attribute, B.v is missing
\* or a string; the registry holds at most one item, of threshold 0
InitG ==
    /\ cursor = GuiPlayback.min
    /\ attrType \in {t \in [Attrs -> HostTypes] :
                       t["A.v"] = "double" /\ t["B.v"] # "double"}
    /\ chunkDepth = 0
    /\ suspended = FALSE
    /\ playback = GuiPlayback
    /\ InitScan
    /\ items \in {its \in ItemLists :
                    Len(its) <= 1 /\ \A i \in 1..Len(its) : its[i].value = 0}
    /\ InitGui

\* scans of the GUI on a host whose cmds.refresh does not raise
NextG ==
    \/ OnScanClicked
    \/ UserClicksCancel
    \/ TakeCancelClick
    \/ CallScanner
    \/ Validate
    \/ Setup({TRUE})
    \/ NextFrame
    \/ Sample(GuiScene)
    \/ UpdateProgress
    \/ SetValueEnd
    \/ UpdateProgressEnd
    \/ Finally({TRUE})
    \/ ScanFinished
    \/ ClearScanResults
    \/ DisplayScanResults
    \/ OnTreeItemClicked

SpecGui == InitG /\ [][NextG]_vars

(***************************************************************************)
(* gui_main.py: the registry (SpikeCheckerModel) and the handlers of the   *)
(* controller that change it.  Python indexes are 0-based, positions of    *)
(* the sequence are 1-based.                                               *)
(***************************************************************************)
\* SpikeCheckerModel.has_item
has_item(its, name) == \E i \in 1..Len(its) : its[i].name = name

\* SpikeCheckerModel.add_item: the item is appended, whatever its name
add_item(its, name, value) == Append(its, [name |-> name, value |-> value])

\* SpikeCheckerModel.remove_item: an index out of range is ignored
remove_item(its, index) ==
    IF 0 <= index /\ index < Len(its)
    THEN [k \in 1..(Len(its) - 1) |-> IF k <= index THEN its[k] ELSE its[k + 1]]
    ELSE its

\* lines 93-95: items_changed is emitted inside the test of the index
remove_item_signals(its, index) ==
    IF 0 <= index /\ index < Len(its) THEN 1 ELSE 0

\* lines 151-154: items_changed is emitted when get_item found the item
set_item_value_signals(its, index) ==
    IF 0 <= index /\ index < Len(its) THEN 1 ELSE 0

\* SpikeCheckerModel.set_item_value: an index out of range is ignored
set_item_value(its, index, value) ==
    IF 0 <= index /\ index < Len(its)
    THEN [its EXCEPT ![index + 1].value = value]
    ELSE its

\* the loops of _on_add_node_clicked (352-357) and _on_register_clicked
\* (398-413): a name is added with the given value unless the attribute does
\* not exist or the registry has the name already
RECURSIVE AddNew(_, _, _)
AddNew(its, names, value) ==
    IF names = <<>> THEN its
    ELSE IF ~objExists(Head(names)) \/ has_item(its, Head(names))
         THEN AddNew(its, Tail(names), value)
         ELSE AddNew(add_item(its, Head(names), value), Tail(names), value)

\* what the channel box selection or a node pattern with an attribute name
\* expands to
NameLists == UNION {[1..n -> Attrs] : n \in 0..Cardinality(Attrs)}

\* the record of an operation on the registry its
Op(op, arg, its, signals) ==
    [op |-> op, arg |-> arg, before |-> its, signals |-> signals]

\* the selected rows sorted in ascending order
SortedRows_Ascending(S) ==
    [k \in 1..Cardinality(S) |->
        CHOOSE x \in S : Cardinality({y \in S : y < x}) = k - 1]

\* lines 366 and 371: the selected rows, sorted with reverse=True
SortedRows(S) ==
    [k \in 1..Cardinality(S) |->
        CHOOSE x \in S : Cardinality({y \in S : y > x}) = k - 1]

\* lines 372-373: remove_item for each row in turn; n counts the
\* items_changed signals
RECURSIVE RemoveRows(_, _, _)
RemoveRows(its, rows, n) ==
    IF rows = <<>> THEN [items |-> its, signals |-> n]
    ELSE RemoveRows(remove_item(its, Head(rows)), Tail(rows),
                    n + remove_item_signals(its, Head(rows)))

\* SpikeCheckerController.add_item: no test of has_item
ControllerAddItem ==
    /\ EventsDelivered
    /\ Len(items) < MaxItems
    /\ \E name \in Attrs, value \in Thresholds :
          /\ items' = add_item(items, name, value)
          /\ last_op' = Op("add_item", {}, items, 1)
    /\ UNCHANGED <<gui, dialog, clickPending, wasCanceled,
                   last_update_percent, displayed, handled>>
    /\ UNCHANGED nestVars
    /\ UNCHANGED <<hostVars, scanVars>>

\* _on_add_node_clicked: the selected attributes are added with value 1.0
OnAddNodeClicked ==
    /\ EventsDelivered
    /\ \E names \in NameLists :
          /\ Len(AddNew(items, names, 1)) <= MaxItems
          /\ items' = AddNew(items, names, 1)
          /\ last_op' = Op("add_node", {}, items,
                           Len(AddNew(items, names, 1)) - Len(items))
    /\ UNCHANGED <<gui, dialog, clickPending, wasCanceled,
                   last_update_percent, displayed, handled>>
    /\ UNCHANGED nestVars
    /\ UNCHANGED <<hostVars, scanVars>>

\* _on_register_clicked: the matching attributes are added with value 0.0
OnRegisterClicked ==
    /\ EventsDelivered
    /\ \E names \in NameLists :
          /\ Len(AddNew(items, names, 0)) <= MaxItems
          /\ items' = AddNew(items, names, 0)
          /\ last_op' = Op("register", {}, items,
                           Len(AddNew(items, names, 0)) - Len(items))
    /\ UNCHANGED <<gui, dialog, clickPending, wasCanceled,
                   last_update_percent, displayed, handled>>
    /\ UNCHANGED nestVars
    /\ UNCHANGED <<hostVars, scanVars>>

\* SpikeCheckerController.remove_item
ControllerRemoveItem ==
    /\ EventsDelivered
    /\ \E index \in (0 - 1)..MaxItems :
          /\ items' = remove_item(items, index)
          /\ last_op' = Op("remove_item", {index}, items,
                           remove_item_signals(items, index))
    /\ UNCHANGED <<gui, dialog, clickPending, wasCanceled,
                   last_update_percent, displayed, handled>>
    /\ UNCHANGED nestVars
    /\ UNCHANGED <<hostVars, scanVars>>

\* SpikeCheckerController.clear_items, also behind _on_clear_all_clicked
ControllerClearItems ==
    /\ EventsDelivered
    /\ items' = <<>>
    /\ last_op' = Op("clear_items", {}, items, 1)
    /\ UNCHANGED <<gui, dialog, clickPending, wasCanceled,
                   last_update_percent, displayed, handled>>
    /\ UNCHANGED nestVars
    /\ UNCHANGED <<hostVars, scanVars>>

\* _on_value_changed: the spin box of a row sets the threshold of the item
OnValueChanged ==
    /\ EventsDelivered
    /\ \E row \in 0..(MaxItems - 1), value \in Thresholds :
          /\ items' = set_item_value(items, row, value)
          /\ last_op' = Op("set_item_value", {row}, items,
                           set_item_value_signals(items, row))
    /\ UNCHANGED <<gui, dialog, clickPending, wasCanceled,
                   last_update_percent, displayed, handled>>
    /\ UNCHANGED nestVars
    /\ UNCHANGED <<hostVars, scanVars>>

\* _on_del_sel_clicked: the rows selected in the table, which shows one row
\* per item, are removed; without a selection the handler returns
OnDelSelClicked ==
    /\ EventsDelivered
    /\ \E S \in SUBSET (0..(Len(items) - 1)) :
          IF S = {}
          THEN UNCHANGED <<items, last_op>>
          ELSE LET r == RemoveRows(items, SortedRows(S), 0) IN
                 /\ items' = r.items
                 /\ last_op' = Op("del_sel", S, items, r.signals)
    /\ UNCHANGED <<gui, dialog, clickPending, wasCanceled,
                   last_update_percent, displayed, handled>>
    /\ UNCHANGED nestVars
    /\ UNCHANGED <<hostVars, scanVars>>

(***************************************************************************)
(* Specification of the operations on the registry                         *)
(***************************************************************************)
\* the handlers of the registry ask the host only whether an attribute
\* exists: each attribute is missing or numeric
InitReg ==
    /\ cursor = GuiPlayback.min
    /\ attrType \in [Attrs -> {"missing", "double"}]
    /\ chunkDepth = 0
    /\ suspended = FALSE
    /\ playback = GuiPlayback
    /\ InitScan
    /\ items = <<>>
    /\ InitGui

NextReg ==
    \/ ControllerAddItem
    \/ OnAddNodeClicked
    \/ OnRegisterClicked
    \/ ControllerRemoveItem
    \/ ControllerClearItems
    \/ OnValueChanged
    \/ OnDelSelClicked

SpecReg == InitReg /\ [][NextReg]_vars

(***************************************************************************)
(* Specification of direct calls that leave out a bound or give None       *)
(***************************************************************************)
\* the ways a caller gives start_frame or end_frame
FrameArgs == {Omitted, None} \cup {IntArg(n) : n \in Frames}

\* the playback ranges of the host
Playbacks == {pb \in [min : Frames, max : Frames] : pb.min <= pb.max}

\* a direct call in which at least one bound is not given as an integer
CallWithDefaults ==
    /\ pc = "idle" /\ gui = "idle"
    /\ \E d \in Requests, sa \in FrameArgs, ea \in FrameArgs :
          /\ sa.kind # "int" \/ ea.kind # "int"
          /\ Len(d) * TotalFrames(
                 ResolveFrame(BindArg(sa, DefaultStart), playback.min),
                 ResolveFrame(BindArg(ea, DefaultEnd), playback.max))
               <= MaxSamples
          /\ EnterWith(d, sa, ea, "None")
    /\ UNCHANGED <<hostVars, guiVars>>

InitArgs ==
    /\ cursor \in CursorStarts
    /\ attrType \in [Attrs -> HostTypes]
    /\ chunkDepth = 0
    /\ suspended = FALSE
    /\ playback \in Playbacks
    /\ InitScan
    /\ items = <<>>
    /\ InitGui

NextArgs ==
    \/ CallWithDefaults
    \/ Validate
    \/ Setup({TRUE})
    \/ NextFrame
    \/ Sample(GuiScene)
    \/ ProgressNone
    \/ Finally({TRUE})
    \/ Return

SpecArgs == InitArgs /\ [][NextArgs]_vars

(***************************************************************************)
(* Specification of direct calls on a host whose calls may raise:          *)
(* cmds.refresh in viewport_pause, cmds.currentTime in the finally block   *)
(***************************************************************************)
NextHost ==
    \/ CallCheckAttrSpike
    \/ Validate
    \/ Setup(BOOLEAN)
    \/ NextFrame
    \/ Sample(GuiScene)
    \/ ProgressNone
    \/ ProgressSink
    \/ Finally(BOOLEAN)
    \/ FinallyRestoreFails
    \/ Return

SpecHost == Init /\ [][NextHost]_vars

(***************************************************************************)
(* Specification of the worked example: the request {"A.v": 5.0} over the  *)
(* frames 1..4 where A.v is 1.0, 3.0, 10.0, 10.5.  The unit of the values  *)
(* and of the threshold is 0.5: the model holds 2, 6, 20, 21 and 10.       *)
(***************************************************************************)
ExampleValues == <<2, 6, 20, 21>>

ExampleRequest == <<[name |-> "A.v", threshold |-> 10]>>

ExampleScene ==
    [a \in Attrs, f \in AllFrames |->
        IF a = "A.v" /\ f \in 1..Len(ExampleValues)
        THEN {ExampleValues[f]} ELSE {0}]

\* check_attr_spike({"A.v": 5.0}, 1, 4) with or without a progress sink
CallExample ==
    /\ pc = "idle" /\ gui = "idle"
    /\ \E cb \in {"None", "sink"} :
          Enter(ExampleRequest, 1, Len(ExampleValues), cb)
    /\ UNCHANGED <<hostVars, guiVars>>

InitExample ==
    /\ cursor \in CursorStarts
    /\ attrType \in {t \in [Attrs -> HostTypes] : t["A.v"] = "double"}
    /\ chunkDepth = 0
    /\ suspended = FALSE
    /\ playback = GuiPlayback
    /\ InitScan
    /\ items = <<>>
    /\ InitGui

NextExample ==
    \/ CallExample
    \/ Validate
    \/ Setup({TRUE})
    \/ NextFrame
    \/ Sample(ExampleScene)
    \/ ProgressNone
    \/ ProgressSink
    \/ Finally({TRUE})
    \/ Return

SpecExample == InitExample /\ [][NextExample]_vars

(***************************************************************************)
(* Specification of scans over a reversed range: the Scan button with a    *)
(* start above the end, when no handler runs and from the event queue of a *)
(* running scan, next to scans of the playback range, results given to the *)
(* view, and direct calls of the scanner over any range                    *)
(***************************************************************************)
\* the Scan button with the spin boxes on the playback range
ScanClickedPlayback == ScanClicked(playback.min, playback.max)

\* the Scan button while the start spin box is above the end spin box
ScanClickedReversed ==
    \E s \in GuiFrames, e \in GuiFrames : s > e /\ ScanClicked(s, e)

\* A.v is a numeric attribute, B.v is missing, numeric or a string; the
\* registry is empty or holds A.v with the threshold 0
InitRange ==
    /\ cursor \in CursorStarts
    /\ attrType \in {t \in [Attrs -> HostTypes] : t["A.v"] = "double"}
    /\ chunkDepth = 0
    /\ suspended = FALSE
    /\ playback = GuiPlayback
    /\ InitScan
    /\ items \in {<<>>, <<[name |-> "A.v", value |-> 0]>>}
    /\ InitGui

NextRange ==
    \/ ScanClickedReversed
    \/ ScanClickedPlayback
    \/ CallScanner
    \/ CallCheckAttrSpike
    \/ Validate
    \/ Setup({TRUE})
    \/ NextFrame
    \/ Sample(GuiScene)
    \/ ProgressNone
    \/ ProgressSink
    \/ UpdateProgress
    \/ SetValueEnd
    \/ UpdateProgressEnd
    \/ Finally({TRUE})
    \/ Return
    \/ ScanFinished
    \/ DisplayScanResults

SpecRange == InitRange /\ [][NextRange]_vars

(***************************************************************************)
(* Specification of scans of the GUI during which the event queue holds    *)
(* calls of the operations on the registry and further clicks on Scan: the *)
(* handler runs them when it processes events (lines 289, 306 and 307)     *)
(***************************************************************************)
\* a host on which A.v is a numeric attribute and B.v does not exist; the
\* registry holds at most one item, and the queued calls remove items
InitQueued ==
    /\ cursor = GuiPlayback.min
    /\ attrType = [a \in Attrs |-> IF a = "A.v" THEN "double" ELSE "missing"]
    /\ chunkDepth = 0
    /\ suspended = FALSE
    /\ playback = GuiPlayback
    /\ InitScan
    /\ items \in {its \in ItemLists : Len(its) <= 1}
    /\ InitGui

NextQueued ==
    \/ ScanClickedPlayback
    \/ UserClicksCancel
    \/ TakeCancelClick
    \/ CallScanner
    \/ Validate
    \/ Setup({TRUE})
    \/ NextFrame
    \/ Sample(GuiScene)
    \/ UpdateProgress
    \/ SetValueEnd
    \/ UpdateProgressEnd
    \/ Finally({TRUE})
    \/ ScanFinished
    \/ ControllerRemoveItem
    \/ ControllerClearItems

SpecQueued == InitQueued /\ [][NextQueued]_vars

(***************************************************************************)
(* Reading the history of a call                                           *)
(***************************************************************************)
IsRead(e)     == e.ev = "read"
IsTime(e)     == e.ev = "time"
IsProgress(e) == e.ev = "progress"

\* positions of the trace holding a successful read of a at frame f
ReadsAt(a, f) ==
    {i \in 1..Len(trace) :
        IsRead(trace[i]) /\ trace[i].attr = a /\ trace[i].frame = f}

\* the values read for a at frame f
SampledAt(a, f) == {trace[i].val : i \in ReadsAt(a, f)}

\* number of events of kind ev among the first n of the trace
CountUpTo(ev, n) == Cardinality({i \in 1..n : trace[i].ev = ev})

\* number of events of kind ev in a trace
CountIn(ev, tr) == Cardinality({i \in 1..Len(tr) : tr[i].ev = ev})

Completed == pc = "done" /\ outcome.kind = "return"

\* the threshold the request gives to attribute a
ThresholdOf(a) ==
    LET k == CHOOSE j \in 1..Len(node_attr_dict) : node_attr_dict[j].name = a
    IN  node_attr_dict[k].threshold

\* the trace holds a move of the cursor to a frame other than where it was
CursorWasMoved ==
    \E i \in 1..Len(trace) : IsTime(trace[i]) /\ trace[i].frame # cursor_at_call

(***************************************************************************)
(* C1: on every exit path of check_attr_spike (return, validation error,   *)
(* cancellation raised by the progress callback, error while sampling)     *)
(* the cursor equals its value immediately before the call.                *)
(***************************************************************************)
C1_CursorRestored ==
    pc = "done" => cursor = cursor_at_call

\* a scan cancelled by the sink after the cursor had been moved away
C1_Witness ==
    /\ pc = "done"
    /\ outcome = [kind |-> "raise", exc |-> CancelledError]
    /\ CursorWasMoved
    /\ cursor = cursor_at_call

(***************************************************************************)
(* C2: every spike record (pf, cf, pv, cv, d) of an attribute has          *)
(* cf = pf + 1, pv the value sampled for the attribute at frame pf, cv the *)
(* value sampled at frame cf, d = abs(cv - pv) and d above the threshold   *)
(* of that attribute.                                                      *)
(***************************************************************************)
WellFormedSpike(a, t) ==
    /\ t[2] = t[1] + 1
    /\ SampledAt(a, t[1]) = {t[3]}
    /\ SampledAt(a, t[2]) = {t[4]}
    /\ t[5] = (IF t[4] >= t[3] THEN t[4] - t[3] ELSE t[3] - t[4])
    /\ a \in Keys(node_attr_dict)
    /\ t[5] > ThresholdOf(a)

C2_SpikeRecords ==
    \A a \in DOMAIN result_dict :
        \A i \in 1..Len(result_dict[a]) : WellFormedSpike(a, result_dict[a][i])

\* an attribute with spikes at two consecutive frames: the previous value
\* of the second record is the current value of the first
C2_Witness ==
    /\ pc = "done"
    /\ \E a \in DOMAIN result_dict :
         /\ Len(result_dict[a]) >= 2
         /\ result_dict[a][2][1] = result_dict[a][1][2]
         /\ result_dict[a][2][3] = result_dict[a][1][4]

(***************************************************************************)
(* C3: after a completed scan, for every attribute a of the request and    *)
(* every frame i with start < i <= end, the result has a record with       *)
(* current frame i for a exactly when abs(value(a,i) - value(a,i-1)) is    *)
(* strictly above the threshold of a; the condition mentions nothing of    *)
(* any other attribute.                                                    *)
(***************************************************************************)
HasRecord(a, f) ==
    /\ a \in DOMAIN result_dict
    /\ \E i \in 1..Len(result_dict[a]) : result_dict[a][i][2] = f

JumpAbove(a, f, th) ==
    \E p \in SampledAt(a, f - 1), c \in SampledAt(a, f) :
        (c - p > th) \/ (p - c > th)

C3_SpikeIffAboveThreshold ==
    Completed =>
        \A k \in 1..Len(node_attr_dict) :
            \A f \in (start_frame + 1)..end_frame :
                HasRecord(node_attr_dict[k].name, f)
                    <=> JumpAbove(node_attr_dict[k].name, f,
                                  node_attr_dict[k].threshold)

\* two attributes with the same values and different thresholds: the jump
\* equal to the threshold is not recorded, the other one is
C3_Witness ==
    /\ Completed
    /\ Len(node_attr_dict) = 2
    /\ \E f \in (start_frame + 1)..end_frame :
         LET a == node_attr_dict[1].name
             b == node_attr_dict[2].name
         IN /\ SampledAt(a, f) = SampledAt(b, f)
            /\ SampledAt(a, f - 1) = SampledAt(b, f - 1)
            /\ \E p \in SampledAt(a, f - 1), c \in SampledAt(a, f) :
                  c - p = node_attr_dict[1].threshold
            /\ ~HasRecord(a, f)
            /\ HasRecord(b, f)

(***************************************************************************)
(* C4: a request with a reference that does not exist or is not of a       *)
(* numeric type ends in a validation error that names the first such       *)
(* reference in request order, with no host call and no callback made: the *)
(* cursor, the undo chunk and the viewport are untouched.                  *)
(***************************************************************************)
BadReference(a) == attrType[a] = "missing" \/ attrType[a] \notin NUMERIC_TYPES

NamesFirstBad ==
    \E i \in 1..Len(node_attr_dict) :
        /\ BadReference(node_attr_dict[i].name)
        /\ \A j \in 1..(i - 1) : ~BadReference(node_attr_dict[j].name)
        /\ outcome.kind = "raise"
        /\ outcome.exc.cls = "RuntimeError"
        /\ outcome.exc.msg[2] = node_attr_dict[i].name
        /\ outcome.exc.msg[1] =
             (IF attrType[node_attr_dict[i].name] = "missing"
              THEN "Node" ELSE "Attribute")

C4_ValidationFailsFast ==
    (/\ pc \notin {"idle", "events289", "validate"}
     /\ \E i \in 1..Len(node_attr_dict) : BadReference(node_attr_dict[i].name))
    => /\ pc = "done"
       /\ NamesFirstBad
       /\ trace = <<>>
       /\ cursor = cursor_at_call
       /\ chunkDepth = 0

\* two bad references: the first is of a non-numeric type, the second is
\* missing; the error names the first
C4_Witness ==
    /\ pc = "done"
    /\ Len(node_attr_dict) = 2
    /\ attrType[node_attr_dict[1].name] = "string"
    /\ attrType[node_attr_dict[2].name] = "missing"
    /\ outcome = [kind |-> "raise",
                  exc |-> NotNumericError(node_attr_dict[1].name, "string")]
    /\ trace = <<>>

(***************************************************************************)
(* C5: when the progress sink has signalled cancellation (the exception of *)
(* gui_main.py:311 is in flight) the call ends by raising it and not by    *)
(* returning a result, no frame is set after the invocation that signalled *)
(* it, and the caller can tell the raised condition from a validation      *)
(* error: its class is the class of no validation error.                   *)
(***************************************************************************)
SinkCancelled == pending = CancelledError

C5_CancelledIsDistinct ==
    (pc = "done" /\ SinkCancelled) =>
        /\ outcome = [kind |-> "raise", exc |-> CancelledError]
        /\ CountIn("time", trace) = CountIn("progress", trace)
        /\ \A a \in Attrs, t \in HostTypes :
              /\ outcome.exc.cls # NodeMissingError(a).cls
              /\ outcome.exc.cls # NotNumericError(a, t).cls

\* what holds of a cancellation: once it is signalled no further frame is
\* set or sampled and the sink is not invoked again, and the call ends by
\* raising the exception of the sink; no other end of a call has that
\* outcome, which differs from a validation error by its message
C5_CancellationAborts ==
    /\ [][SinkCancelled' =>
            /\ CountIn("read", trace') = CountIn("read", trace)
            /\ CountIn("time", trace') = CountIn("time", trace)
            /\ (SinkCancelled =>
                  CountIn("progress", trace') = CountIn("progress", trace))
            /\ pc' \in {"finally", "done"}]_vars
    /\ [](pc = "done" =>
            (SinkCancelled <=>
                outcome = [kind |-> "raise", exc |-> CancelledError]))

(***************************************************************************)
(* C6: in a scan started from the GUI, when the user has clicked Cancel    *)
(* (the click is in the queue or was taken from it) and update_progress is *)
(* invoked for a frame, that invocation ends by raising the cancellation,  *)
(* so that no later frame is sampled.  The invocation ends with a step of  *)
(* the run of the handler that made it, not with the entry of a nested run *)
(* that it waits for.                                                      *)
(***************************************************************************)
C6_CancelObservedAtNextFrame ==
    [][(/\ pc \in {"progress", "events306", "events307"}
        /\ progress_callback = "update_progress"
        /\ clickPending \/ wasCanceled
        /\ stack' = stack
        /\ pc' \notin {"progress", "events306", "events307"})
       => (pc' = "finally" /\ pending' = CancelledError)]_vars

(***************************************************************************)
(* C7: after a completed scan of a range with start <= end every attribute *)
(* of the request has been sampled exactly end - start + 1 times, once at  *)
(* each frame of [start, end], and every spike record has its previous and *)
(* its current frame inside [start, end].                                  *)
(***************************************************************************)
ReadsOf(a) ==
    {i \in 1..Len(trace) : IsRead(trace[i]) /\ trace[i].attr = a}

C7_SamplesAndFramesInRange ==
    (Completed /\ start_frame <= end_frame) =>
        /\ \A k \in 1..Len(node_attr_dict) :
              /\ Cardinality(ReadsOf(node_attr_dict[k].name))
                    = end_frame - start_frame + 1
              /\ \A f \in start_frame..end_frame :
                    Cardinality(ReadsAt(node_attr_dict[k].name, f)) = 1
        /\ \A a \in DOMAIN result_dict :
              \A i \in 1..Len(result_dict[a]) :
                 /\ result_dict[a][i][1] \in start_frame..end_frame
                 /\ result_dict[a][i][2] \in start_frame..end_frame

\* a completed scan of two attributes over several frames, with a spike
\* at the last frame
C7_Witness ==
    /\ Completed
    /\ Len(node_attr_dict) = 2
    /\ end_frame > start_frame
    /\ \E a \in DOMAIN result_dict : HasRecord(a, end_frame)

(***************************************************************************)
(* C8: no spike record has the first frame of the range as its current     *)
(* frame, whatever the values.                                             *)
(***************************************************************************)
C8_NoSpikeAtFirstFrame ==
    \A a \in DOMAIN result_dict :
        \A i \in 1..Len(result_dict[a]) : result_dict[a][i][2] # start_frame

\* the first frame gave a value above the threshold of the attribute, the
\* attribute has no record for it, and the scan went on to the next frame
C8_Witness ==
    /\ pc \in {"sample", "progress", "frame", "finally", "done"}
    /\ \E k \in 1..Len(node_attr_dict) :
         /\ \E v \in SampledAt(node_attr_dict[k].name, start_frame) :
                v > node_attr_dict[k].threshold
         /\ SampledAt(node_attr_dict[k].name, start_frame + 1) # {}
         /\ ~HasRecord(node_attr_dict[k].name, start_frame)

(***************************************************************************)
(* C9: sampling is sequential in ascending frame order.  Every read is     *)
(* made at the frame the cursor was last moved to; the cursor is moved to  *)
(* the next frame only after every attribute of the request has been read  *)
(* at the frame before, and its spike, if any, recorded; within a frame    *)
(* the attributes are read in the insertion order of the request.          *)
(***************************************************************************)
\* position of attribute a in the request
PosOf(a) == CHOOSE k \in 1..Len(node_attr_dict) : node_attr_dict[k].name = a

\* the frames the cursor was moved to before position n of the trace
TimesBefore(n) == {i \in 1..(n - 1) : IsTime(trace[i])}

C9_SequentialSampling ==
    /\ \A i \in 1..Len(trace) :
          IsTime(trace[i]) =>
             \* the k-th move goes to frame start + k - 1 ...
             /\ trace[i].frame = start_frame + Cardinality(TimesBefore(i))
             \* ... after all attributes were read at every earlier frame
             /\ \A f \in start_frame..(trace[i].frame - 1) :
                   \A k \in 1..Len(node_attr_dict) :
                      \E j \in 1..(i - 1) :
                         /\ IsRead(trace[j])
                         /\ trace[j].attr = node_attr_dict[k].name
                         /\ trace[j].frame = f
    /\ \A j \in 1..Len(trace) :
          IsRead(trace[j]) =>
             \* a read is made at the frame of the last move of the cursor
             /\ TimesBefore(j) # {}
             /\ \A i \in TimesBefore(j) :
                   (\A h \in TimesBefore(j) : h <= i)
                      => trace[j].frame = trace[i].frame
             \* reads are in ascending (frame, position in the request) order
             /\ \A h \in 1..(j - 1) :
                   IsRead(trace[h]) =>
                      \/ trace[h].frame < trace[j].frame
                      \/ /\ trace[h].frame = trace[j].frame
                         /\ PosOf(trace[h].attr) < PosOf(trace[j].attr)
    \* a jump seen at a frame is recorded before the next read is made
    /\ \A k \in 1..Len(node_attr_dict) :
          \A f \in (start_frame + 1)..end_frame :
             (/\ JumpAbove(node_attr_dict[k].name, f, node_attr_dict[k].threshold)
              /\ pc # "idle")
             => HasRecord(node_attr_dict[k].name, f)

\* the second attribute of the request is being read at the second frame
\* after both were read at the first
C9_Witness ==
    /\ pc = "sample"
    /\ Len(node_attr_dict) = 2
    /\ attr_index = 2
    /\ cursor = start_frame + 1
    /\ SampledAt(node_attr_dict[1].name, start_frame + 1) # {}
    /\ SampledAt(node_attr_dict[2].name, start_frame) # {}

(***************************************************************************)
(* C10: a progress sink is invoked once per frame, after the attributes of *)
(* the frame were processed and before the cursor moves on, with (k,total) *)
(* where k counts the frames processed so far from 1 and                   *)
(* total = end - start + 1; a completed scan has made total invocations,   *)
(* the last with k = total.                                                *)
(***************************************************************************)
C10_ProgressOncePerFrame ==
    /\ \A i \in 1..Len(trace) :
          IsProgress(trace[i]) =>
             /\ trace[i].k = CountUpTo("progress", i)
             /\ trace[i].total = end_frame - start_frame + 1
             \* invoked during frame k, after all its attributes were read
             /\ CountUpTo("time", i) = trace[i].k
             /\ CountUpTo("read", i) = trace[i].k * Len(node_attr_dict)
    /\ \A i \in 1..Len(trace) :
          \* before the cursor moves on, every earlier frame was reported
          (IsTime(trace[i]) /\ progress_callback # "None") =>
             CountUpTo("progress", i) = CountUpTo("time", i) - 1
    /\ (Completed /\ progress_callback # "None" /\ start_frame <= end_frame) =>
          /\ CountUpTo("progress", Len(trace)) = end_frame - start_frame + 1
          /\ \E i \in 1..Len(trace) :
                /\ IsProgress(trace[i])
                /\ trace[i].k = trace[i].total
                /\ \A j \in (i + 1)..Len(trace) : ~IsProgress(trace[j])

\* a completed scan of the widest range with a sink
C10_Witness ==
    /\ Completed
    /\ progress_callback = "sink"
    /\ Len(node_attr_dict) = 1
    /\ total_frames = MaxFrame + 1
    /\ CountUpTo("progress", Len(trace)) = MaxFrame + 1

(***************************************************************************)
(* C11: the keys of the result are exactly the attributes of the request   *)
(* for which the scan recorded at least one spike: an attribute without a  *)
(* jump above its threshold is absent, and no key maps to an empty         *)
(* sequence.                                                               *)
(***************************************************************************)
C11_KeysHaveSpikes ==
    /\ \A a \in DOMAIN result_dict :
          a \in Keys(node_attr_dict) /\ Len(result_dict[a]) >= 1
    /\ Completed =>
          \A k \in 1..Len(node_attr_dict) :
              node_attr_dict[k].name \in DOMAIN result_dict
                  <=> \E f \in (start_frame + 1)..end_frame :
                          JumpAbove(node_attr_dict[k].name, f,
                                    node_attr_dict[k].threshold)

\* a completed scan of two attributes over more than one frame: one has a
\* spike and is a key, the other has none and is absent
C11_Witness ==
    /\ Completed
    /\ Len(node_attr_dict) = 2
    /\ end_frame > start_frame
    /\ node_attr_dict[1].name \notin DOMAIN result_dict
    /\ node_attr_dict[2].name \in DOMAIN result_dict
    /\ outcome.value = result_dict

(***************************************************************************)
(* C12: in the result, the records of one attribute are in scan order:     *)
(* their current frames are strictly increasing along the sequence.        *)
(***************************************************************************)
C12_RecordsInFrameOrder ==
    \A a \in DOMAIN result_dict :
        \A i, j \in 1..Len(result_dict[a]) :
            i < j => result_dict[a][i][2] < result_dict[a][j][2]

\* a returned result in which an attribute has two records, the second at
\* a later frame
C12_Witness ==
    /\ Completed
    /\ \E a \in DOMAIN outcome.value :
          /\ Len(outcome.value[a]) = 2
          /\ outcome.value[a][1][2] < outcome.value[a][2][2]

(***************************************************************************)
(* C13: after any sequence of add, remove, clear and update-threshold      *)
(* operations on the registry, through SpikeCheckerModel, the add_item of  *)
(* the controller or the add-node and register handlers, no two items of   *)
(* the registry have the same name.                                        *)
(***************************************************************************)
C13_NoDuplicateNames ==
    \A i, j \in 1..Len(items) : items[i].name = items[j].name => i = j

(***************************************************************************)
(* C14: a call of check_attr_spike that gives no start_frame scans from    *)
(* the playback minimum of the host, and one that gives no end_frame scans *)
(* up to the playback maximum: after a completed scan the frames the       *)
(* cursor was set to are those from the given or default start to the      *)
(* given or default end.                                                   *)
(***************************************************************************)
FramesSet == {trace[i].frame : i \in {j \in 1..Len(trace) : IsTime(trace[j])}}

C14_OmittedBoundsUsePlaybackRange ==
    (Completed /\ (call_args.start = Omitted \/ call_args.end = Omitted))
    => FramesSet =
         (IF call_args.start = Omitted THEN playback.min ELSE start_frame) ..
         (IF call_args.end = Omitted THEN playback.max ELSE end_frame)

\* what the code does: a start_frame left out is frame 0, one given as None
\* is the playback minimum; an end_frame left out or given as None is the
\* playback maximum
C14_DefaultsOfTheCode ==
    Completed =>
        FramesSet =
          (IF call_args.start = Omitted THEN 0
           ELSE IF call_args.start = None THEN playback.min
           ELSE call_args.start.val) ..
          (IF call_args.end \in {Omitted, None} THEN playback.max
           ELSE call_args.end.val)

(***************************************************************************)
(* C15: no error is swallowed inside the scanner: when a host call made    *)
(* during check_attr_spike failed, a read of a value or a suspend or       *)
(* resume of the viewport, the call ends by raising an error.              *)
(***************************************************************************)
HostCallFailed ==
    \E i \in 1..Len(trace) :
        \/ trace[i].ev = "readError"
        \/ trace[i].ev = "refresh" /\ ~trace[i].ok

C15_HostFailuresReachCaller ==
    (pc = "done" /\ HostCallFailed) => outcome.kind = "raise"

C17_WorkedExample ==
    (/\ Completed
     /\ node_attr_dict = ExampleRequest
     /\ start_frame = 1 /\ end_frame = 4)
    => outcome.value = [a \in {"A.v"} |-> << <<2, 3, 6, 20, 14>> >>]

\* the scan of the example completed after reading the four values
C17_Witness ==
    /\ Completed
    /\ node_attr_dict = ExampleRequest
    /\ start_frame = 1 /\ end_frame = 4
    /\ \A f \in 1..4 : SampledAt("A.v", f) = {ExampleValues[f]}
    /\ DOMAIN outcome.value = {"A.v"}
    /\ Len(outcome.value["A.v"]) = 1

(***************************************************************************)
(* C19: a call of check_attr_spike that opened the undo chunk and          *)
(* suspended the viewport has, when it exits, closed the chunk exactly     *)
(* once and resumed the viewport exactly once; and when a call has exited, *)
(* no undo chunk is open and the viewport is not suspended.                *)
(***************************************************************************)
Resumes(tr) ==
    Cardinality({i \in 1..Len(tr) :
        tr[i].ev = "refresh" /\ ~tr[i].suspend /\ tr[i].ok})

Suspends(tr) ==
    Cardinality({i \in 1..Len(tr) :
        tr[i].ev = "refresh" /\ tr[i].suspend /\ tr[i].ok})

C19_ChunkAndViewportReleased ==
    pc = "done" =>
        /\ (CountIn("openChunk", trace) = 1 /\ Suspends(trace) = 1) =>
              /\ CountIn("closeChunk", trace) = 1
              /\ Resumes(trace) = 1
        /\ chunkDepth = 0
        /\ ~suspended

(***************************************************************************)
(* C20: a scan whose start is above its end never samples.  The handler    *)
(* of the GUI rejects it with a warning before the scanner is called, also *)
(* when the click is taken from the event queue of a running scan: the     *)
(* step changes neither the cursor nor the displayed results nor a         *)
(* variable of the scanner, and the handler never calls the scanner over a *)
(* reversed range.  A direct call of check_attr_spike with start above end *)
(* reads no value, sets the cursor to no frame, never invokes the progress *)
(* sink and leaves the cursor where it was; it returns the empty result    *)
(* when every reference of the request passes the validation, and raises   *)
(* the validation error of the first offending reference otherwise.        *)
(***************************************************************************)
\* a direct call over a reversed range
ReversedCall == pc # "idle" /\ gui = "idle" /\ start_frame > end_frame

\* the handler of the GUI gives a warning
WarningGiven == handled' = "warning" /\ handled # "warning"

\* the GUI half of the claim, for a step
RejectedByHandler ==
    /\ WarningGiven => UNCHANGED <<hostVars, scanVars, displayed, dialog>>
    /\ gui' = "scanning" => start_frame' <= end_frame'

\* what a direct call over a reversed range does not do
NothingSampled ==
    /\ CountIn("read", trace) = 0
    /\ CountIn("readError", trace) = 0
    /\ CountIn("time", trace) = 0
    /\ CountIn("progress", trace) = 0
    /\ pc = "done" => cursor = cursor_at_call

C20_ReversedRangeNeverSamples ==
    [][/\ RejectedByHandler
       /\ ReversedCall' =>
            /\ NothingSampled'
            /\ pc' = "done" =>
                  outcome' =
                    IF FirstOffender(node_attr_dict') = 0
                    THEN [kind |-> "return", value |-> EmptyMap]
                    ELSE [kind |-> "raise",
                          exc |-> ValidationError(node_attr_dict',
                                     FirstOffender(node_attr_dict'))]]_vars

\* the claim as it was stated: every direct call over a reversed range
\* returns the empty result
C20_ReversedCallReturnsEmpty ==
    [][/\ RejectedByHandler
       /\ ReversedCall' =>
            /\ NothingSampled'
            /\ pc' = "done" =>
                  outcome' = [kind |-> "return", value |-> EmptyMap]]_vars

\* a click on Scan over a reversed range was rejected with a warning while
\* results were displayed, and after it a direct call with a sink over a
\* reversed range returned the empty result after it had opened and closed
\* the undo chunk
C20_Witness ==
    /\ handled = "warning"
    /\ BuildDict(items, <<>>) # <<>>
    /\ displayed # EmptyMap
    /\ ReversedCall
    /\ pc = "done"
    /\ progress_callback = "sink"
    /\ Len(node_attr_dict) = 2
    /\ outcome = [kind |-> "return", value |-> EmptyMap]
    /\ CountIn("closeChunk", trace) = 1
    /\ cursor = cursor_at_call

\* a click on Scan over a reversed range was taken from the event queue of
\* a running scan and rejected with a warning while results were displayed
C20_WitnessInsideScan ==
    /\ gui = "scanning"
    /\ pc = "events307"
    /\ handled = "warning"
    /\ displayed # EmptyMap

\* a direct call over a reversed range raised a validation error
C20_WitnessValidation ==
    /\ ReversedCall
    /\ pc = "done"
    /\ outcome.kind = "raise"
    /\ trace = <<>>

(***************************************************************************)
(* C21: deleting a set S of selected rows removes exactly the items that   *)
(* were at the indices of S before the deletion and keeps the others in    *)
(* their order, one change signal per removed item; remove_item with an    *)
(* index outside [0, item_count) changes nothing and emits no change       *)
(* signal, and with an index inside removes the item at that index.        *)
(***************************************************************************)
\* the items of its from position i on whose 0-based index is not in S
RECURSIVE KeepOthers(_, _, _)
KeepOthers(its, S, i) ==
    IF i > Len(its) THEN <<>>
    ELSE (IF (i - 1) \in S THEN <<>> ELSE <<its[i]>>) \o KeepOthers(its, S, i + 1)

C21_DeleteSelectedRows ==
    /\ last_op.op = "del_sel" =>
          /\ items = KeepOthers(last_op.before, last_op.arg, 1)
          /\ Len(items) = Len(last_op.before) - Cardinality(last_op.arg)
          /\ last_op.signals = Cardinality(last_op.arg)
    /\ last_op.op = "remove_item" =>
          \A index \in last_op.arg :
              IF 0 <= index /\ index < Len(last_op.before)
              THEN /\ items = KeepOthers(last_op.before, {index}, 1)
                   /\ last_op.signals = 1
              ELSE /\ items = last_op.before
                   /\ last_op.signals = 0

\* the rows 0 and 1 were deleted in one click from a registry of three
\* different items: the third item is the one that is left
C21_Witness ==
    /\ last_op.op = "del_sel"
    /\ Len(last_op.before) = 3
    /\ last_op.arg = {0, 1}
    /\ last_op.before[1] # last_op.before[2]
    /\ last_op.before[3] # last_op.before[1]
    /\ last_op.before[3] # last_op.before[2]
    /\ items = <<last_op.before[3]>>

\* the middle row was deleted from a registry of three different items:
\* the first and the third item are left, in that order
C21_WitnessMiddle ==
    /\ last_op.op = "del_sel"
    /\ Len(last_op.before) = 3
    /\ last_op.arg = {1}
    /\ last_op.before[1] # last_op.before[3]
    /\ items = <<last_op.before[1], last_op.before[3]>>

\* remove_item was called with the index item_count on a registry that
\* holds items: nothing changed and no signal was emitted
C21_WitnessOutOfRange ==
    /\ last_op.op = "remove_item"
    /\ last_op.before # <<>>
    /\ last_op.arg = {Len(last_op.before)}
    /\ items = last_op.before
    /\ last_op.signals = 0

====
